---- MODULE Spec2Model ----
(***************************************************************************)
(* Model of app.py: the in-memory telemetry store (_history, _latest), the *)
(* routes /health, /ingest, /latest, /history, and the helpers             *)
(* parse_timestamp, to_float_or_none and prune_history.                    *)
(*                                                                         *)
(* Time is counted in whole hours since datetime.min (0001-01-01T00:00).   *)
(* A datetime is [wall, aware, off]: its wall-clock reading, whether it    *)
(* carries a tzinfo, and the UTC offset of that tzinfo in hours.           *)
(* A string spelling an ISO-8601 timestamp is [ws, wall, sfx, off]:        *)
(* whether it is padded with whitespace, the wall-clock reading it spells, *)
(* its suffix ("Z", "off" for +hh:00 or -hh:00, "" for none) and the       *)
(* offset the suffix spells.  Any other string is the sequence of its      *)
(* characters.                                                             *)
(***************************************************************************)
EXTENDS Integers, Sequences, FiniteSets, TLC

\* ---------------------------------------------------------------- constants

HISTORY_DAYS == 30
HoursPerDay == 24
LimitCap == 20000
DefaultHours == 24
DefaultLimit == 5000
\* datetime.min, the smallest value a datetime can hold
DatetimeMin == 0

\* ------------------------------------------------------------------- bounds

\* the clock at process start: 2026-01-01T00:00Z in hours since datetime.min
Clock0 == 17750784
\* how many hours the clock advances
MaxTicks == 2
\* how many readings are ingested successfully
MaxIngest == 3
\* the same, where the optional fields of the body vary
MaxFieldIngest == 2
\* an hours parameter reaching back before datetime.min
HugeHours == 20000000
\* the request handlers running concurrently in the threadpool
NThreads == 2

VARIABLES
    _history,   \* List[Reading], in arrival order
    _latest,    \* Optional[Reading]
    clock,      \* what datetime.now(timezone.utc) returns, in hours
    ingested,   \* history variable: the readings of the successful ingests, in order of return
    req,        \* the request being served, [op |-> "none"] between requests
    resp,       \* the response to it
    pc,         \* per handler thread: the line it is about to run
    loc         \* per handler thread: its local variables

vars == <<_history, _latest, clock, ingested, req, resp, pc, loc>>

\* ------------------------------------------------------------------- values

None == [t |-> "None"]
Float(v) == [t |-> "float", v |-> v]
Str(s) == [t |-> "str", s |-> s]
Absent == [t |-> "absent"]

Datetime(wall, aware, off) ==
    [t |-> "datetime", wall |-> wall, aware |-> aware, off |-> off]

TsStr(ws, wall, sfx, off) ==
    [t |-> "tsstr", ws |-> ws, wall |-> wall, sfx |-> sfx, off |-> off]

\* the absolute instant of a datetime, in hours UTC (a naive one read as UTC)
Instant(dt) == dt.wall - dt.off

Max(a, b) == IF a >= b THEN a ELSE b
Min(a, b) == IF a <= b THEN a ELSE b

\* ------------------------------------------------------------------ helpers

\* str.strip()
Strip(s) == IF s.t = "tsstr" THEN [s EXCEPT !.ws = FALSE] ELSE s

\* datetime.fromisoformat(s): the string must be ISO-8601 with nothing around it
fromisoformat(s) ==
    IF s.t = "tsstr" /\ ~s.ws /\ s.sfx # "Z"
    THEN [ok |-> TRUE,
          dt |-> IF s.sfx = "" THEN Datetime(s.wall, FALSE, 0)
                 ELSE Datetime(s.wall, TRUE, s.off)]
    ELSE [ok |-> FALSE, err |-> "Invalid isoformat string"]

\* s.endswith("Z"), of a string spelling a timestamp
endswithZ(s) == s.t = "tsstr" /\ s.sfx = "Z"

\* the tzinfo replaced where the datetime should be converted: the offset is dropped
astimezone_keep_wall(dt) == Datetime(dt.wall, TRUE, 0)

\* dt.astimezone(timezone.utc) of an aware datetime
astimezone_utc(dt) == Datetime(dt.wall - dt.off, TRUE, 0)

\* dt.replace(tzinfo=timezone.utc)
replace_tzinfo_utc(dt) == Datetime(dt.wall, TRUE, 0)

\* a naive datetime left naive
ensure_utc_aware_only(dt) ==
    IF ~dt.aware THEN dt ELSE astimezone_utc(dt)

\* lines 48-54: ensure tz-aware in UTC
ensure_utc(dt) ==
    IF ~dt.aware THEN replace_tzinfo_utc(dt) ELSE astimezone_utc(dt)

\* lines 34-35
timestamp_missing == [ok |-> FALSE, err |-> "timestamp missing"]

parse_timestamp(ts) ==
    IF ts = None THEN timestamp_missing
    ELSE IF ts.t = "datetime" THEN [ok |-> TRUE, dt |-> ensure_utc(ts)]
    ELSE IF ts.t \in {"tsstr", "str"} THEN
        LET s0 == Strip(ts)
            s  == IF endswithZ(s0) THEN [s0 EXCEPT !.sfx = "off", !.off = 0] ELSE s0
            p  == fromisoformat(s)
        IN IF p.ok THEN [ok |-> TRUE, dt |-> ensure_utc(p.dt)] ELSE p
    ELSE [ok |-> FALSE, err |-> "unsupported timestamp type"]

Digits == {"0", "1", "2", "3", "4", "5", "6", "7", "8", "9"}

DigitVal(c) ==
    CASE c = "0" -> 0 [] c = "1" -> 1 [] c = "2" -> 2 [] c = "3" -> 3
      [] c = "4" -> 4 [] c = "5" -> 5 [] c = "6" -> 6 [] c = "7" -> 7
      [] c = "8" -> 8 [] c = "9" -> 9

RECURSIVE DigitsVal(_)
DigitsVal(s) ==
    IF Len(s) = 0 THEN 0
    ELSE 10 * DigitsVal(SubSeq(s, 1, Len(s) - 1)) + DigitVal(s[Len(s)])

\* float(x): a number is itself, a string converts when it spells a number
float(x) ==
    IF x.t = "float" THEN [ok |-> TRUE, v |-> x]
    ELSE IF x.t = "str" /\ Len(x.s) > 0 /\ \A i \in 1..Len(x.s) : x.s[i] \in Digits
    THEN [ok |-> TRUE, v |-> Float(DigitsVal(x.s))]
    ELSE [ok |-> FALSE, err |-> "could not convert to float"]

to_float_or_none(x) ==
    IF x = None THEN None
    ELSE IF x = Str(<<>>) THEN None
    ELSE IF float(x).ok THEN float(x).v ELSE None

\* ------------------------------------------------------------------- models

OptFields ==
    {"temperature_f", "temp_f", "tds_us_cm", "tds", "do_mg_per_l",
     "dissolved_oxygen", "gh", "kh", "light_lux"}

\* a field declared Optional[float] = None: an absent key takes the default,
\* null stays None, a number or a string spelling one becomes a float, and
\* anything else is a validation error
validate_optional_float(x) ==
    IF x = Absent \/ x = None THEN [ok |-> TRUE, v |-> None]
    ELSE IF float(x).ok THEN [ok |-> TRUE, v |-> float(x).v]
    ELSE [ok |-> FALSE, err |-> "float_parsing"]

\* timestamp: Any = Field(...): any value is taken as it is, the key is required
validate_required_any(x) ==
    IF x = Absent THEN [ok |-> FALSE, err |-> "missing"] ELSE [ok |-> TRUE, v |-> x]

\* the request body validated into an IngestPayload, or the validation error
\* the framework answers with 422 before the handler runs
IngestPayload(body) ==
    IF /\ validate_required_any(body.timestamp).ok
       /\ \A f \in OptFields : validate_optional_float(body[f]).ok
    THEN [ok |-> TRUE,
          payload |-> [f \in DOMAIN body |->
                          IF f = "timestamp" THEN validate_required_any(body[f]).v
                          ELSE validate_optional_float(body[f]).v]]
    ELSE [ok |-> FALSE, status |-> 422]

\* "if not v" for "if v is None": a canonical 0 gives way to the legacy name
coalesce_falsy(canonical, legacy) ==
    LET v == to_float_or_none(canonical)
    IN IF v = None \/ v = Float(0) THEN to_float_or_none(legacy) ELSE v

\* lines 146-156: the canonical name's value, or the legacy name's when the
\* canonical one is None
coalesce(canonical, legacy) ==
    LET v == to_float_or_none(canonical)
    IN IF v = None THEN to_float_or_none(legacy) ELSE v

\* lines 145-166: the Reading built from a validated payload and its parsed timestamp
Reading(payload, ts) ==
    [timestamp     |-> ts,
     temperature_f |-> coalesce(payload.temperature_f, payload.temp_f),
     tds_us_cm     |-> coalesce(payload.tds_us_cm, payload.tds),
     do_mg_per_l   |-> coalesce(payload.do_mg_per_l, payload.dissolved_oxygen),
     gh            |-> to_float_or_none(payload.gh),
     kh            |-> to_float_or_none(payload.kh),
     light_lux     |-> to_float_or_none(payload.light_lux)]

\* datetime.isoformat(): the offset is spelled +hh:00, never Z
isoformat(dt) ==
    IF dt.aware THEN TsStr(FALSE, dt.wall, "off", dt.off)
    ELSE TsStr(FALSE, dt.wall, "", 0)

\* a datetime in model_dump(mode="json"): UTC is spelled Z
json_datetime(dt) ==
    IF dt.aware /\ dt.off = 0 THEN TsStr(FALSE, dt.wall, "Z", 0) ELSE isoformat(dt)

\* Reading.model_dump(mode="json")
model_dump(r) == [r EXCEPT !.timestamp = json_datetime(r.timestamp)]

\* the "no data" shape of /latest
NoData ==
    [timestamp |-> None, temperature_f |-> None, tds_us_cm |-> None,
     do_mg_per_l |-> None]

\* ------------------------------------------------------------------- store

\* dt - timedelta(hours=h)
minus_hours(dt, h) == [dt EXCEPT !.wall = @ - h]

\* whether dt - timedelta(hours=h) leaves the range of datetime (OverflowError)
overflows(dt, h) == dt.wall - h < DatetimeMin

\* datetime.now(timezone.utc)
now_utc(c) == Datetime(c, TRUE, 0)

\* a >= b on aware datetimes
dt_ge(a, b) == Instant(a) >= Instant(b)

\* the assignment of line 120 made to a local name: _history keeps everything
prune_history_local(hist, now) == hist

\* "> cutoff" for ">= cutoff": the reading on the cutoff is dropped
prune_history_strict(hist, now) ==
    LET cutoff == minus_hours(now, HoursPerDay * HISTORY_DAYS)
    IN SelectSeq(hist, LAMBDA r : Instant(r.timestamp) > Instant(cutoff))

\* prune_history: the new value of _history
prune_history(hist, now) ==
    LET cutoff == minus_hours(now, HoursPerDay * HISTORY_DAYS)
    IN SelectSeq(hist, LAMBDA r : dt_ge(r.timestamp, cutoff))

\* rows[:-start] for rows[start:], the head for the tail
slice_head(rows, start) == SubSeq(rows, 1, Min(0 - start, Len(rows)))

\* rows[start:] of a Python list
slice_from(rows, start) ==
    LET n == Len(rows)
        i == IF start < 0 THEN Max(n + start, 0) ELSE Min(start, n)
    IN SubSeq(rows, i + 1, n)

\* timedelta(days=...) for timedelta(hours=...)
window_days(hours) == Max(1, hours) * HoursPerDay

\* line 199: the effective window of /history, in hours
window_hours(hours) == Max(1, hours)

\* line 202: the effective limit of /history
effective_limit(limit) == Max(1, Min(limit, LimitCap))

\* the rows selected without the filter of line 201
history_rows_unfiltered(hist, now, hours, limit) ==
    slice_from(hist, 0 - effective_limit(limit))

\* lines 198-202: the rows /history selects
history_rows(hist, now, hours, limit) ==
    LET cutoff == minus_hours(now, window_hours(hours))
        rows == SelectSeq(hist, LAMBDA r : dt_ge(r.timestamp, cutoff))
    IN slice_from(rows, 0 - effective_limit(limit))

\* [r.model_dump(mode="json") for r in rows]
dump_rows(rows) == [i \in 1..Len(rows) |-> model_dump(rows[i])]

\* ------------------------------------------------------------------- inputs

\* how old, in hours, the timestamp a client sends is
Ages == {0, 1, HoursPerDay * HISTORY_DAYS, HoursPerDay * HISTORY_DAYS + 1}

\* the values a client sends for an optional field: null, "", "ab", "5", 0
RawVals == {None, Str(<<>>), Str(<<"a", "b">>), Str(<<"5">>), Float(0)}

\* the values a client sends as a timestamp that is not one:
\* the key left out, null, "not", 5
BadTimestamps == {Absent, None, Str(<<"n", "o", "t">>), Float(5)}

\* the forms in which a client sends the instant c
NowTimestamps(c) ==
    {TsStr(FALSE, c, "Z", 0), TsStr(TRUE, c, "Z", 0), TsStr(FALSE, c, "off", 0),
     TsStr(FALSE, c + 2, "off", 2), TsStr(FALSE, c - 5, "off", 0 - 5),
     TsStr(FALSE, c, "", 0), Datetime(c, FALSE, 0), Datetime(c + 2, TRUE, 2)}

Pairs ==
    {<<"temperature_f", "temp_f">>, <<"tds_us_cm", "tds">>,
     <<"do_mg_per_l", "dissolved_oxygen">>}

Singles == {"gh", "kh", "light_lux"}

\* a body holding only the key timestamp (or no key at all, for Absent)
BaseBody(ts) ==
    [f \in OptFields \cup {"timestamp"} |-> IF f = "timestamp" THEN ts ELSE Absent]

\* the request bodies sent to /ingest when the clock reads c: the timestamp varies
Bodies(c) ==
    {BaseBody(TsStr(FALSE, c - a, "Z", 0)) : a \in Ages}
    \cup {BaseBody(ts) : ts \in NowTimestamps(c) \cup BadTimestamps}
    \cup {[BaseBody(ts) EXCEPT !.tds = Str(<<>>)] : ts \in BadTimestamps}

\* the request bodies sent to /ingest when the clock reads c: the optional fields vary
FieldBodies(c) ==
    {[BaseBody(TsStr(FALSE, c, "Z", 0)) EXCEPT ![p[1]] = a, ![p[2]] = b] :
        p \in Pairs, a \in RawVals, b \in RawVals}
    \cup {[BaseBody(TsStr(FALSE, c, "Z", 0)) EXCEPT ![f] = a] : f \in Singles, a \in RawVals}

HoursInputs == {0 - 3, 0, 1, DefaultHours, 2 * HoursPerDay * HISTORY_DAYS, HugeHours}

LimitInputs == {0 - 2, 0, 1, 2, DefaultLimit, LimitCap + 1}

Threads == 1..NThreads

\* -------------------------------------------------------------------- state

NoRequest == [op |-> "none"]
NoResponse == [op |-> "none", status |-> 0]

Init ==
    /\ _history = <<>>
    /\ _latest = None
    /\ clock = Clock0
    /\ ingested = <<>>
    /\ req = NoRequest
    /\ resp = NoResponse
    /\ pc = [t \in Threads |-> "idle"]
    /\ loc = [t \in Threads |-> None]

\* lines 140-166 and the framework's validation before them: the status the
\* request is bound for, and the reading built when it is 200
ingest_check(body) ==
    LET v == IngestPayload(body)
    IN IF ~v.ok THEN [status |-> 422]
       ELSE LET p == parse_timestamp(v.payload.timestamp)
            IN IF ~p.ok THEN [status |-> 400, detail |-> p.err]
               ELSE [status |-> 200, reading |-> Reading(v.payload, p.dt)]

\* _latest kept when its timestamp is later than the new reading's
new_latest_by_timestamp(old, reading) ==
    IF old # None /\ Instant(old.timestamp) > Instant(reading.timestamp)
    THEN old ELSE reading

\* line 168: the new value of _latest
new_latest(old, reading) == reading

\* line 169: the new value of _history
appended(hist, reading) == Append(hist, reading)

\* lines 173-178
ingest_response(reading, hist, c) ==
    [op |-> "ingest", status |-> 200, ok |-> TRUE, stored |-> 1,
     latest |-> model_dump(reading), count |-> Len(hist), at |-> c]

\* POST /ingest, run from request to response with no other handler in between
Ingest(body) ==
    LET c == ingest_check(body)
    IN /\ req = NoRequest
       /\ req' = [op |-> "ingest", body |-> body]
       /\ IF c.status # 200
          THEN /\ resp' = [op |-> "ingest", status |-> c.status]
               /\ UNCHANGED <<_history, _latest, ingested>>
          ELSE /\ Len(ingested) < MaxIngest
               /\ _latest' = new_latest(_latest, c.reading)
               /\ _history' = prune_history(appended(_history, c.reading), now_utc(clock))
               /\ ingested' = Append(ingested, c.reading)
               /\ resp' = ingest_response(c.reading, _history', clock)
       /\ UNCHANGED <<clock, pc, loc>>

\* lines 128-133
health_response(hist, latest) ==
    [op |-> "health", status |-> 200, ok |-> TRUE,
     history_days |-> HISTORY_DAYS, count |-> Len(hist),
     latest_timestamp |-> IF latest # None THEN isoformat(latest.timestamp) ELSE None]

\* GET /health
Health ==
    /\ req = NoRequest
    /\ req' = [op |-> "health"]
    /\ resp' = health_response(_history, _latest)
    /\ UNCHANGED <<_history, _latest, ingested, clock, pc, loc>>

\* lines 183-185
latest_response(latest) ==
    [op |-> "latest", status |-> 200,
     body |-> IF latest = None THEN NoData ELSE model_dump(latest)]

\* GET /latest
Latest ==
    /\ req = NoRequest
    /\ req' = [op |-> "latest"]
    /\ resp' = latest_response(_latest)
    /\ UNCHANGED <<_history, _latest, ingested, clock, pc, loc>>

\* lines 198-204; an OverflowError raised in the handler is answered with 500
history_response(hist, c, hours, limit) ==
    IF overflows(now_utc(c), window_hours(hours))
    THEN [op |-> "history", status |-> 500, at |-> c]
    ELSE [op |-> "history", status |-> 200, at |-> c,
          body |-> dump_rows(history_rows(hist, now_utc(c), hours, limit))]

\* /history pruning the store as /ingest does
History_pruning(hours, limit) ==
    /\ req = NoRequest
    /\ req' = [op |-> "history", hours |-> hours, limit |-> limit]
    /\ _history' = prune_history(_history, now_utc(clock))
    /\ resp' = history_response(_history', clock, hours, limit)
    /\ UNCHANGED <<_latest, ingested, clock, pc, loc>>

\* GET /history?hours=&limit=
History(hours, limit) ==
    /\ req = NoRequest
    /\ req' = [op |-> "history", hours |-> hours, limit |-> limit]
    /\ resp' = history_response(_history, clock, hours, limit)
    /\ UNCHANGED <<_history, _latest, ingested, clock, pc, loc>>

\* the response is sent and the server waits for the next request
Reply ==
    /\ req # NoRequest
    /\ req' = NoRequest
    /\ resp' = NoResponse
    /\ UNCHANGED <<_history, _latest, ingested, clock, pc, loc>>

\* an hour passes while the server is idle
Tick ==
    /\ req = NoRequest
    /\ \A t \in Threads : pc[t] = "idle"
    /\ clock < Clock0 + MaxTicks
    /\ clock' = clock + 1
    /\ UNCHANGED <<_history, _latest, ingested, req, resp, pc, loc>>

Next ==
    \/ \E body \in Bodies(clock) : Ingest(body)
    \/ Health
    \/ Latest
    \/ \E hours \in HoursInputs, limit \in LimitInputs : History(hours, limit)
    \/ Reply
    \/ Tick

\* requests served one at a time, the timestamp of the body varying
Spec == Init /\ [][Next]_vars

NextFields ==
    \/ \E body \in FieldBodies(clock) : Len(ingested) < MaxFieldIngest /\ Ingest(body)
    \/ Latest
    \/ Reply

\* requests served one at a time, the optional fields of the body varying
SpecFields == Init /\ [][NextFields]_vars

\* ------------------------------------------------------------------ parsing

\* the offsets, in hours, a client spells
Offsets == {0 - 5, 0, 2}

\* the wall-clock readings a client spells when the clock reads c
Walls(c) == (c - 3)..(c + 3)

\* the timestamps handed to parse_timestamp when the clock reads c
ParseInputs(c) ==
    {TsStr(ws, w, "Z", 0) : ws \in BOOLEAN, w \in Walls(c)}
    \cup {TsStr(ws, w, "", 0) : ws \in BOOLEAN, w \in Walls(c)}
    \cup {TsStr(ws, w, "off", o) : ws \in BOOLEAN, w \in Walls(c), o \in Offsets}
    \cup {Datetime(w, FALSE, 0) : w \in Walls(c)}
    \cup {Datetime(w, TRUE, o) : w \in Walls(c), o \in Offsets}
    \cup (BadTimestamps \ {Absent})

\* parse_timestamp applied to ts, and applied again to the ISO rendering of
\* its result (isoformat() and the JSON rendering)
Parse(ts) ==
    LET p == parse_timestamp(ts)
    IN /\ req = NoRequest
       /\ req' = [op |-> "parse", ts |-> ts]
       /\ resp' = IF p.ok
                  THEN [op |-> "parse", status |-> 200, dt |-> p.dt,
                        again |-> parse_timestamp(isoformat(p.dt)),
                        again_json |-> parse_timestamp(json_datetime(p.dt))]
                  ELSE [op |-> "parse", status |-> 400, detail |-> p.err]
       /\ UNCHANGED <<_history, _latest, ingested, clock, pc, loc>>

NextParse ==
    \/ \E ts \in ParseInputs(clock) : Parse(ts)
    \/ Reply
    \/ Tick

\* parse_timestamp applied to the timestamps clients send
SpecParse == Init /\ [][NextParse]_vars

\* ------------------------------------------------------------- concurrency
\* The routes are plain (def) functions, which the framework runs in a
\* threadpool: handlers interleave between statements.  Line 120 is two steps:
\* the comprehension reads _history, then the result is bound to the global.

\* the request bodies sent to /ingest by concurrent clients
ConcBodies(c) == {BaseBody(TsStr(FALSE, c - a, "Z", 0)) : a \in Ages} \cup {BaseBody(None)}

\* the handlers that are past validation and have not returned
InFlight == {t \in Threads : pc[t] # "idle"}

AllReturned == InFlight = {}

\* lines 137-166 in thread t: a rejected request is answered at once
CIngestStart(t, body) ==
    LET c == ingest_check(body)
    IN /\ pc[t] = "idle"
       /\ IF c.status # 200
          THEN /\ resp' = [op |-> "ingest", status |-> c.status]
               /\ UNCHANGED <<pc, loc>>
          ELSE /\ Len(ingested) + Cardinality(InFlight) < MaxIngest
               /\ pc' = [pc EXCEPT ![t] = "l168"]
               /\ loc' = [loc EXCEPT ![t] = [reading |-> c.reading]]
               /\ UNCHANGED resp
       /\ UNCHANGED <<_history, _latest, ingested, clock, req>>

\* line 168 in thread t
CSetLatest(t) ==
    /\ pc[t] = "l168"
    /\ _latest' = new_latest(_latest, loc[t].reading)
    /\ pc' = [pc EXCEPT ![t] = "l169"]
    /\ UNCHANGED <<_history, ingested, clock, req, resp, loc>>

\* line 169 in thread t
CAppend(t) ==
    /\ pc[t] = "l169"
    /\ _history' = appended(_history, loc[t].reading)
    /\ pc' = [pc EXCEPT ![t] = "l171"]
    /\ UNCHANGED <<_latest, ingested, clock, req, resp, loc>>

\* lines 171, 117 and the comprehension of line 120 in thread t
CPruneRead(t) ==
    /\ pc[t] = "l171"
    /\ loc' = [loc EXCEPT ![t] = [reading |-> loc[t].reading, now |-> clock,
                                  rows |-> prune_history(_history, now_utc(clock))]]
    /\ pc' = [pc EXCEPT ![t] = "l120"]
    /\ UNCHANGED <<_history, _latest, ingested, clock, req, resp>>

\* the assignment of line 120 in thread t
CPruneStore(t) ==
    /\ pc[t] = "l120"
    /\ _history' = loc[t].rows
    /\ pc' = [pc EXCEPT ![t] = "l173"]
    /\ UNCHANGED <<_latest, ingested, clock, req, resp, loc>>

\* lines 173-178 in thread t
CIngestReturn(t) ==
    /\ pc[t] = "l173"
    /\ resp' = ingest_response(loc[t].reading, _history, loc[t].now)
    /\ ingested' = Append(ingested, loc[t].reading)
    /\ pc' = [pc EXCEPT ![t] = "idle"]
    /\ loc' = [loc EXCEPT ![t] = None]
    /\ UNCHANGED <<_history, _latest, clock, req>>

NextConc ==
    \/ \E t \in Threads, body \in ConcBodies(clock) : CIngestStart(t, body)
    \/ \E t \in Threads : CSetLatest(t)
    \/ \E t \in Threads : CAppend(t)
    \/ \E t \in Threads : CPruneRead(t)
    \/ \E t \in Threads : CPruneStore(t)
    \/ \E t \in Threads : CIngestReturn(t)
    \/ Tick

\* /ingest handlers running concurrently
SpecConc == Init /\ [][NextConc]_vars

\* GET /health served while /ingest handlers run
CHealth ==
    /\ resp' = health_response(_history, _latest)
    /\ UNCHANGED <<_history, _latest, ingested, clock, req, pc, loc>>

\* GET /latest served while /ingest handlers run
CLatest ==
    /\ resp' = latest_response(_latest)
    /\ UNCHANGED <<_history, _latest, ingested, clock, req, pc, loc>>

\* GET /history, with its default parameters, served while /ingest handlers run
CHistory ==
    /\ resp' = history_response(_history, clock, DefaultHours, DefaultLimit)
    /\ UNCHANGED <<_history, _latest, ingested, clock, req, pc, loc>>

\* the request bodies sent to /ingest while other clients read
ObserveBodies(c) ==
    {BaseBody(TsStr(FALSE, c - a, "Z", 0)) : a \in {0, HoursPerDay * HISTORY_DAYS + 1}}

NextObserve ==
    \/ \E t \in Threads, body \in ObserveBodies(clock) : CIngestStart(t, body)
    \/ \E t \in Threads : CSetLatest(t)
    \/ \E t \in Threads : CAppend(t)
    \/ \E t \in Threads : CPruneRead(t)
    \/ \E t \in Threads : CPruneStore(t)
    \/ \E t \in Threads : CIngestReturn(t)
    \/ CHealth
    \/ CLatest
    \/ CHistory
    \/ Tick

\* /ingest handlers running concurrently with /health, /latest and /history
SpecObserve == Init /\ [][NextObserve]_vars

\* ------------------------------------------------------------------ claims

Range(seq) == {seq[i] : i \in 1..Len(seq)}

RetentionHours == HoursPerDay * HISTORY_DAYS

\* the request in service is an /ingest whose timestamp is not one
BadTimestampRequest == req.op = "ingest" /\ req.body.timestamp \in BadTimestamps

\* the same of the next state
BadTimestampRequestNext == req'.op = "ingest" /\ req'.body.timestamp \in BadTimestamps

\* C1 as stated: an /ingest whose timestamp is invalid (absent, None, a string
\* that is no ISO-8601 timestamp, a value neither string nor datetime) is
\* answered 400 and leaves _history and _latest as they were.
C1_InvalidTimestampIs400 ==
    [][BadTimestampRequestNext =>
         /\ resp'.status = 400
         /\ _history' = _history
         /\ _latest' = _latest]_vars

\* What the code does for C1's requests: a client error, 400 when the body
\* passes validation and parse_timestamp refuses the timestamp, 422 when
\* validation refuses the body first (the timestamp key is absent, or an
\* optional field is not a number); _history and _latest are left as they were.
C1_InvalidTimestampRejected ==
    [][BadTimestampRequestNext =>
         /\ resp'.status = IF /\ req'.body.timestamp # Absent
                              /\ \A f \in OptFields :
                                    req'.body[f] \in {Absent, None, Float(0), Str(<<"5">>)}
                           THEN 400 ELSE 422
         /\ _history' = _history
         /\ _latest' = _latest]_vars

\* a null timestamp refused with 400 while the store holds readings
C1_RefusedWithStore ==
    /\ BadTimestampRequest
    /\ req.body.timestamp = None
    /\ resp.status = 400
    /\ Len(_history) >= 2
    /\ _latest # None

\* C2: /latest returns the reading of the most recent successful /ingest, in
\* arrival order whatever the timestamps, and the "no data" shape exactly
\* when no /ingest has succeeded.
C2_LatestIsLastIngested ==
    resp.op = "latest" =>
        /\ resp.body = IF ingested = <<>> THEN NoData
                       ELSE model_dump(ingested[Len(ingested)])
        /\ (resp.body = NoData) <=> (ingested = <<>>)

\* C2 witness: /latest answers with a reading whose timestamp is earlier than
\* that of a reading ingested before it and still stored
C2_Witness ==
    /\ resp.op = "latest"
    /\ Len(ingested) >= 2
    /\ resp.body = model_dump(ingested[Len(ingested)])
    /\ \E i \in 1..Len(_history) :
          Instant(_history[i].timestamp) > Instant(ingested[Len(ingested)].timestamp)

\* C3: when a successful /ingest returns, every reading in _history has
\* timestamp >= now - HISTORY_DAYS, now being the clock its prune read.
C3_RetentionAfterIngest ==
    (resp.op = "ingest" /\ resp.status = 200) =>
        \A i \in 1..Len(_history) :
            Instant(_history[i].timestamp) >= resp.at - RetentionHours

\* C3 witness: a successful /ingest whose prune dropped an earlier reading and
\* kept one lying exactly on the cutoff
C3_Witness ==
    /\ resp.op = "ingest" /\ resp.status = 200
    /\ \E i \in 1..Len(ingested) : ingested[i] \notin Range(_history)
    /\ \E i \in 1..Len(_history) :
          Instant(_history[i].timestamp) = resp.at - RetentionHours

\* the readings of _history inside the window of the /history request in service
InWindow(r) == Instant(r.timestamp) >= resp.at - Max(1, req.hours)

\* C4: every reading /history returns is an element of _history with
\* timestamp >= now - max(1, hours) hours, and no reading of _history with an
\* earlier timestamp is returned.
C4_HistoryWithinWindow ==
    (resp.op = "history" /\ resp.status = 200) =>
        /\ \A i \in 1..Len(resp.body) :
              \E j \in 1..Len(_history) :
                  /\ resp.body[i] = model_dump(_history[j])
                  /\ InWindow(_history[j])
        /\ \A j \in 1..Len(_history) :
              ~InWindow(_history[j]) => model_dump(_history[j]) \notin Range(resp.body)

\* C4 witness: /history with hours below 1 returns a reading one hour old and
\* leaves out a reading two hours old
C4_Witness ==
    /\ resp.op = "history" /\ resp.status = 200
    /\ req.hours < 1
    /\ \E i \in 1..Len(_history) :
          /\ Instant(_history[i].timestamp) = resp.at - 1
          /\ model_dump(_history[i]) \in Range(resp.body)
    /\ \E j \in 1..Len(_history) :
          /\ Instant(_history[j].timestamp) = resp.at - 2
          /\ model_dump(_history[j]) \notin Range(resp.body)

\* no reading in the window that /history left out is later than one it returned
MostRecentReturned ==
    \A j \in 1..Len(_history) :
        (InWindow(_history[j]) /\ model_dump(_history[j]) \notin Range(resp.body)) =>
            \A i \in 1..Len(resp.body) :
                Instant(_history[j].timestamp)
                    <= Instant(parse_timestamp(resp.body[i].timestamp).dt)

\* _history is in non-decreasing order of timestamp
Chronological ==
    \A i, j \in 1..Len(_history) :
        i < j => Instant(_history[i].timestamp) <= Instant(_history[j].timestamp)

\* C5 as stated: for every arrival order, the readings /history returns are
\* the most recent ones in the window: none left out is later than one returned.
C5_MostRecentAnyOrder ==
    (resp.op = "history" /\ resp.status = 200) => MostRecentReturned

\* C5 amended: the readings /history returns are the last L of the window in
\* arrival order; they are the most recent ones whenever _history is in
\* non-decreasing order of timestamp.
C5_MostRecentWhenChronological ==
    (resp.op = "history" /\ resp.status = 200 /\ Chronological) => MostRecentReturned

\* C5 witness: a chronological history with more readings in the window than
\* the limit, of distinct timestamps, and /history returning the limit
C5_Witness ==
    /\ resp.op = "history" /\ resp.status = 200
    /\ Chronological
    /\ req.limit = 2
    /\ Len(resp.body) = 2
    /\ Len(_history) = 3
    /\ \A j \in 1..Len(_history) : InWindow(_history[j])
    /\ Instant(_history[1].timestamp) < Instant(_history[2].timestamp)

\* how many readings of _history lie in the window of the /history request in service
MatchingCount == Cardinality({j \in 1..Len(_history) : InWindow(_history[j])})

\* C6 as stated: /history never fails; for every integer hours and limit the
\* window is max(1, hours) hours and the number of rows returned is
\* min(readings in the window, max(1, min(limit, 20000))).
C6_HistoryNeverFails ==
    req.op = "history" =>
        /\ resp.status = 200
        /\ Len(resp.body) = Min(MatchingCount, Max(1, Min(req.limit, LimitCap)))

\* What the code does for C6's requests: the row count is as stated whenever
\* the request is answered at all, and it is answered unless now - hours
\* falls before datetime.min.
C6_RowCountWhenAnswered ==
    req.op = "history" =>
        /\ resp.status = IF resp.at - Max(1, req.hours) < DatetimeMin THEN 500 ELSE 200
        /\ resp.status = 200 =>
              Len(resp.body) = Min(MatchingCount, Max(1, Min(req.limit, LimitCap)))

\* C7 as stated: for every interleaving of /ingest handlers, once all have
\* returned, every reading successfully ingested whose timestamp is within
\* the retention window is in _history: no append is lost.
C7_NoAppendLost ==
    AllReturned =>
        \A i \in 1..Len(ingested) :
            Instant(ingested[i].timestamp) >= clock - RetentionHours =>
                ingested[i] \in Range(_history)

\* C8 as stated: when a successful /ingest returns, its reading is an element
\* of _history, and between requests _latest is none or an element of _history.
C8_IngestedIsStored ==
    /\ (resp.op = "ingest" /\ resp.status = 200) =>
          \E j \in 1..Len(_history) : model_dump(_history[j]) = resp.latest
    /\ req = NoRequest => (_latest = None \/ _latest \in Range(_history))

\* the value converts to a number: it is one, or a string spelling one
Converts(x) == x \notin {Absent, None} /\ float(x).ok

\* the timestamp is a string spelling an ISO-8601 timestamp, or a datetime
GoodTimestamp(ts) == ts.t \in {"tsstr", "datetime"}

\* the field of the Reading a body key feeds
Target(f) ==
    CASE f \in {"temperature_f", "temp_f"} -> "temperature_f"
      [] f \in {"tds_us_cm", "tds"} -> "tds_us_cm"
      [] f \in {"do_mg_per_l", "dissolved_oxygen"} -> "do_mg_per_l"
      [] OTHER -> f

\* C9 as stated: an /ingest with a valid timestamp succeeds whatever the
\* optional fields hold (null, "", malformed text, a number), a reading is
\* stored, and a field none of whose keys converts to a number is stored as
\* unknown.
C9_OptionalFieldNeverRejects ==
    (req.op = "ingest" /\ GoodTimestamp(req.body.timestamp)) =>
        /\ resp.status = 200
        /\ _latest # None /\ model_dump(_latest) = resp.latest
        /\ \A g \in {Target(f) : f \in OptFields} :
              (\A f \in OptFields : Target(f) = g => ~Converts(req.body[f])) =>
                  resp.latest[g] = None

\* the value the claim gives a field with a canonical and a legacy key
Preferred(canonical, legacy) ==
    IF Converts(canonical) THEN float(canonical).v
    ELSE IF Converts(legacy) THEN float(legacy).v
    ELSE None

\* C10: for temperature_f (temp_f), tds_us_cm (tds) and do_mg_per_l
\* (dissolved_oxygen) the stored value is the canonical key's value whenever
\* that converts to a number, 0 included, otherwise the legacy key's value if
\* that converts, otherwise unknown.
C10_CanonicalFirst ==
    (req.op = "ingest" /\ resp.status = 200) =>
        /\ _latest # None /\ model_dump(_latest) = resp.latest
        /\ \A p \in Pairs :
              _latest[p[1]] = Preferred(req.body[p[1]], req.body[p[2]])

\* C10 witness: a canonical 0 stored although the legacy key holds "5"
C10_Witness ==
    /\ req.op = "ingest" /\ resp.status = 200
    /\ req.body.tds_us_cm = Float(0)
    /\ req.body.tds = Str(<<"5">>)
    /\ _latest.tds_us_cm = Float(0)
    /\ resp.latest.tds_us_cm = Float(0)

\* the request in service parses a string spelling wall-clock w with suffix sfx
ParsedString(sfx) == req.op = "parse" /\ req.ts.t = "tsstr" /\ req.ts.sfx = sfx

\* C11: parse_timestamp maps a string with trailing Z, the same string with
\* +00:00 and the same string with no offset to the same UTC instant, a
\* string with a non-zero offset to the instant shifted by that offset, and
\* parsing the ISO rendering of its own output returns the same instant.
C11_ParseEquivalentForms ==
    (req.op = "parse" /\ req.ts.t = "tsstr") =>
        /\ resp.status = 200
        /\ resp.dt.aware /\ resp.dt.off = 0
        /\ resp.dt.wall = IF req.ts.sfx = "off" THEN req.ts.wall - req.ts.off
                          ELSE req.ts.wall
        /\ (req.ts.sfx # "off" \/ req.ts.off = 0) =>
              /\ parse_timestamp(TsStr(FALSE, req.ts.wall, "Z", 0)).dt = resp.dt
              /\ parse_timestamp(TsStr(FALSE, req.ts.wall, "off", 0)).dt = resp.dt
              /\ parse_timestamp(TsStr(FALSE, req.ts.wall, "", 0)).dt = resp.dt
        /\ resp.again.ok /\ resp.again.dt = resp.dt
        /\ resp.again_json.ok /\ resp.again_json.dt = resp.dt

\* C11 witness: a string with offset +02:00 parsed to the instant two hours
\* before its wall-clock reading, and its rendering parsed back to the same
C11_Witness ==
    /\ ParsedString("off")
    /\ req.ts.off = 2
    /\ resp.status = 200
    /\ resp.dt = Datetime(req.ts.wall - 2, TRUE, 0)
    /\ resp.again.dt = resp.dt

\* C12 as stated: no /health, /latest or /history running beside an /ingest
\* observes part of that ingest's effects, such as _latest referring to a
\* reading not yet appended to _history: a /health that reports a latest
\* timestamp inside the retention window reports a non-empty history.
C12_NoPartialIngestObserved ==
    (resp.op = "health" /\ resp.latest_timestamp # None) =>
        \/ resp.count > 0
        \/ Instant(parse_timestamp(resp.latest_timestamp).dt) < clock - RetentionHours

\* C13 as stated, for the runs in which no reading is lost or pruned: once
\* all concurrent /ingest handlers have returned, _latest is the reading
\* appended to _history last.
C13_LatestIsLastAppended ==
    (AllReturned /\ Len(_history) > 0 /\ Len(_history) = Len(ingested)) =>
        _latest = _history[Len(_history)]

\* every reading of the /history response in service is within the
\* retention window of the clock the request read
ReturnedWithinRetention ==
    \A i \in 1..Len(resp.body) :
        Instant(parse_timestamp(resp.body[i].timestamp).dt) >= resp.at - RetentionHours

\* C14 as stated: at every /history query every reading returned is within
\* the retention window of the query-time clock, for every hours value and
\* after any amount of idle time.
C14_HistoryWithinRetention ==
    (resp.op = "history" /\ resp.status = 200) => ReturnedWithinRetention

\* C14 amended: every reading returned is within the retention window of the
\* query-time clock whenever max(1, hours) is at most HISTORY_DAYS days; for
\* a wider window a reading that went stale since the last ingest's prune is
\* returned until the next ingest.
C14_HistoryWithinRetentionNarrow ==
    (resp.op = "history" /\ resp.status = 200
        /\ Max(1, req.hours) <= RetentionHours) => ReturnedWithinRetention

\* C14 witness: after an idle hour _history holds a reading older than the
\* retention window, and a /history of the default window leaves it out
C14_Witness ==
    /\ resp.op = "history" /\ resp.status = 200
    /\ req.hours = DefaultHours
    /\ Len(resp.body) > 0
    /\ \E j \in 1..Len(_history) :
          Instant(_history[j].timestamp) < resp.at - RetentionHours

\* C15: only a successful /ingest changes the store: /health, /latest,
\* /history, a rejected /ingest and the passage of time leave _history and
\* _latest unchanged, so the history shrinks only inside an ingest's prune.
C15_OnlyIngestChangesStore ==
    [][(_history' # _history \/ _latest' # _latest) =>
          /\ req = NoRequest
          /\ req'.op = "ingest"
          /\ resp'.status = 200
          /\ Len(ingested') = Len(ingested) + 1]_vars

\* C15 witness: a reading older than the retention window still stored after
\* an idle hour and a /history request
C15_Witness ==
    /\ resp.op = "history"
    /\ clock > Clock0
    /\ \E j \in 1..Len(_history) :
          Instant(_history[j].timestamp) < clock - RetentionHours

\* the readings of seq at or after cutoff, in the order of seq
RECURSIVE Kept(_, _)
Kept(seq, cutoff) ==
    IF seq = <<>> THEN <<>>
    ELSE IF Instant(Head(seq).timestamp) >= cutoff
         THEN <<Head(seq)>> \o Kept(Tail(seq), cutoff)
         ELSE Kept(Tail(seq), cutoff)

\* C16: the history after a prune is exactly the subsequence of the history
\* before it (the old history and the reading just appended) made of the
\* readings with timestamp >= cutoff, in the same order, sorted or not.
C16_PruneIsFilter ==
    [][(req'.op = "ingest" /\ resp'.status = 200) =>
          _history' = Kept(Append(_history, ingested'[Len(ingested')]),
                           clock - RetentionHours)]_vars

\* C16 witness: readings arrived out of timestamp order, an ingest's prune
\* dropped one of them and kept two, one of them on the cutoff
C16_Witness ==
    /\ resp.op = "ingest" /\ resp.status = 200
    /\ \E i, j \in 1..Len(ingested) :
          i < j /\ Instant(ingested[i].timestamp) > Instant(ingested[j].timestamp)
    /\ \E i \in 1..Len(ingested) : ingested[i] \notin Range(_history)
    /\ Len(_history) = 2
    /\ \E j \in 1..Len(_history) :
          Instant(_history[j].timestamp) = resp.at - RetentionHours

\* the datetime is timezone-aware with offset zero
AwareUTC(dt) == dt.t = "datetime" /\ dt.aware /\ dt.off = 0

\* C17: every reading in _history and the reading in _latest carries a
\* timezone-aware UTC timestamp, whatever form the client sent.
C17_StoredTimestampsAreUTC ==
    /\ \A i \in 1..Len(_history) : AwareUTC(_history[i].timestamp)
    /\ _latest # None => AwareUTC(_latest.timestamp)

\* C17 witness: a reading sent as a string with offset +02:00 is stored, as
\* the reading before it, with the UTC instant of the clock
C17_Witness ==
    /\ Len(_history) >= 2
    /\ Len(ingested) >= 2
    /\ req.op = "ingest" /\ resp.status = 200
    /\ req.body.timestamp = TsStr(FALSE, clock + 2, "off", 2)
    /\ _latest.timestamp = Datetime(clock, TRUE, 0)
    /\ \A i \in 1..Len(_history) : _history[i].timestamp = Datetime(clock, TRUE, 0)

====
